---- MODULE Spec2Model ----
\* Drop-safe promises (src/src/lib.rs): a Promise<T, V> owns one FutureType
\* and completes it exactly once, with the given result or, when the promise
\* is dropped un-completed, with T::on_drop().
EXTENDS Naturals, Sequences

\* ---------------------------------------------------------------- bounds
\* Number of promise slots the holder may create with wrap.
NumGuards == 3
\* Number of FutureType instances (each backed by its own output Vec).
NumCompletables == 3

Guards == 1..NumGuards
Completables == 1..NumCompletables

\* ---------------------------------------------------------------- values
\* V = Result<u32, &'static str> of the test instance.
Ok(n) == [tag |-> "Ok", val |-> n, msg |-> ""]
Err(m) == [tag |-> "Err", val |-> 0, msg |-> m]

\* The results a holder passes to Promise::complete: the two of the tests and
\* one that happens to equal the fallback.
Values == {Ok(42), Err("fail"), Err("dropped")}

\* Option<X>: None is the empty sequence, Some(x) the one-element sequence.
None == << >>
Some(x) == << x >>
IsSome(o) == Len(o) = 1
Unwrap(o) == o[1]

VARIABLES
    inner,        \* inner[g]: Option<T>, the promise's slot
    life,         \* life[g]: "unborn" (not yet wrapped), "live" (owned by the holder), "dropped"
    moved,        \* moved[c]: the completable was moved into wrap
    sink,         \* sink[c]: the Vec the completable c pushes to
    owner,        \* owner[g]: Option<T>, the completable g was constructed with
    invoked,      \* invoked[c]: calls of FutureType::complete on c
    fired,        \* fired[g]: the Some-branches taken on g ("explicit", "fallback"), in order
    takes,        \* takes[g]: calls of inner.take() on g
    dropRuns,     \* dropRuns[g]: runs of Drop::drop on g
    onDropCalls,  \* onDropCalls[g]: evaluations of T::on_drop() on behalf of g
    arg,          \* arg[g]: Option<V>, the result given to Promise::complete
    emptyBranch,  \* emptyBranch[g]: Promise::complete found the slot empty
    panics        \* panics[g]: the implementer's calls that unwound on behalf of g, in order

vars == << inner, life, moved, sink, owner, invoked, fired, takes, dropRuns,
           onDropCalls, arg, emptyBranch, panics >>

\* The part of the state the library's functions read and write.
Mem == [inner |-> inner, sink |-> sink, invoked |-> invoked, fired |-> fired,
        takes |-> takes, dropRuns |-> dropRuns, onDropCalls |-> onDropCalls,
        emptyBranch |-> emptyBranch, panics |-> panics]

\* ---------------------------------------------------------------- FutureType
\* tests::Borrowed::on_drop
OnDrop == Err("dropped")

\* A completion that returns without delivering.
FutureCompleteDeferred(m, c, result) ==
    [m EXCEPT !.invoked[c] = @ + 1]

\* tests::Borrowed::complete: self.vec.push(result)
FutureComplete(m, c, result) ==
    [m EXCEPT !.sink[c] = Append(@, result), !.invoked[c] = @ + 1]

\* ---------------------------------------------------------------- Promise
\* A take on a slot shared by every promise: all slots become None.
TakeAll(m, g) ==
    [m EXCEPT !.inner = [h \in Guards |-> None], !.takes[g] = @ + 1]

\* Option::take on the slot: the slot becomes None.
Take(m, g) ==
    [m EXCEPT !.inner[g] = None, !.takes[g] = @ + 1]

\* A constructor that leaves the slot empty.
PromiseNewEmpty(m, g, c) ==
    [m EXCEPT !.inner[g] = None]

\* Promise::new: Self { inner: Some(inner), .. }
PromiseNew(m, g, c) ==
    [m EXCEPT !.inner[g] = Some(c)]

\* wrap: Promise::new(callback)
WrapFn(m, g, c) == PromiseNew(m, g, c)

\* A completion that reads the slot without clearing it.
PromiseCompleteNoTake(m, g, result) ==
    IF IsSome(m.inner[g])
    THEN FutureComplete([m EXCEPT !.fired[g] = Append(@, "explicit")],
                        Unwrap(m.inner[g]), result)
    ELSE [m EXCEPT !.emptyBranch[g] = TRUE]

\* A completion that delivers the fallback instead of the result.
PromiseCompleteFallback(m, g, result) ==
    LET x == m.inner[g]
        t == Take(m, g)
    IN  IF IsSome(x)
        THEN FutureComplete([t EXCEPT !.fired[g] = Append(@, "explicit")],
                            Unwrap(x), OnDrop)
        ELSE [t EXCEPT !.emptyBranch[g] = TRUE]

\* Promise::complete, the body: if let Some(x) = self.inner.take() { x.complete(result) }
PromiseComplete(m, g, result) ==
    LET x == m.inner[g]
        t == Take(m, g)
    IN  IF IsSome(x)
        THEN FutureComplete([t EXCEPT !.fired[g] = Append(@, "explicit")],
                            Unwrap(x), result)
        ELSE [t EXCEPT !.emptyBranch[g] = TRUE]

\* A teardown that empties the slot and completes nothing.
DropDropForget(m, g) ==
    [Take(m, g) EXCEPT !.dropRuns[g] = @ + 1]

\* A teardown that produces the fallback before it looks at the slot.
DropDropEager(m, g) ==
    LET cb == m.inner[g]
        t == [Take(m, g) EXCEPT !.dropRuns[g] = @ + 1, !.onDropCalls[g] = @ + 1]
    IN  IF IsSome(cb)
        THEN FutureComplete([t EXCEPT !.fired[g] = Append(@, "fallback")],
                            Unwrap(cb), OnDrop)
        ELSE t

\* Drop::drop: if let Some(cb) = self.inner.take() { cb.complete(T::on_drop()) }
DropDrop(m, g) ==
    LET cb == m.inner[g]
        t == [Take(m, g) EXCEPT !.dropRuns[g] = @ + 1]
    IN  IF IsSome(cb)
        THEN FutureComplete([t EXCEPT !.fired[g] = Append(@, "fallback"),
                                      !.onDropCalls[g] = @ + 1],
                            Unwrap(cb), OnDrop)
        ELSE t

\* ---------------------------------------------------------------- unwinding implementers
\* An implementer of FutureType whose on_drop() panics: the evaluation is
\* counted and nothing is returned.
OnDropPanics(m, g) ==
    [m EXCEPT !.onDropCalls[g] = @ + 1, !.panics[g] = Append(@, "on_drop")]

\* An implementer of FutureType whose complete(self, result) panics partway:
\* the call is counted, and the result was delivered before the panic or not.
FutureCompleteUnwinds(m, g, c, result, pushed) ==
    [m EXCEPT !.invoked[c] = @ + 1,
              !.sink[c] = IF pushed THEN Append(@, result) ELSE @,
              !.panics[g] = Append(@, "complete")]

\* A completion that invokes the completable first and would clear the slot
\* afterwards: the panic leaves the slot holding it.
PromiseCompleteUnwindsInvokeFirst(m, g, result, pushed) ==
    IF IsSome(m.inner[g])
    THEN FutureCompleteUnwinds([m EXCEPT !.fired[g] = Append(@, "explicit")],
                               g, Unwrap(m.inner[g]), result, pushed)
    ELSE [Take(m, g) EXCEPT !.emptyBranch[g] = TRUE]

\* Promise::complete, the body, when x.complete(result) panics: the slot was
\* taken before the call.
PromiseCompleteUnwinds(m, g, result, pushed) ==
    LET x == m.inner[g]
        t == Take(m, g)
    IN  IF IsSome(x)
        THEN FutureCompleteUnwinds([t EXCEPT !.fired[g] = Append(@, "explicit")],
                                   g, Unwrap(x), result, pushed)
        ELSE [t EXCEPT !.emptyBranch[g] = TRUE]

\* A teardown that produces the fallback before it looks at the slot: the
\* panic leaves the slot holding the completable.
DropDropOnDropPanicsEager(m, g) ==
    OnDropPanics([m EXCEPT !.dropRuns[g] = @ + 1], g)

\* Drop::drop when T::on_drop() panics: the slot is taken, then the argument
\* of cb.complete(..) is evaluated and unwinds; cb is discarded uncompleted.
DropDropOnDropPanics(m, g) ==
    LET cb == m.inner[g]
        t == [Take(m, g) EXCEPT !.dropRuns[g] = @ + 1]
    IN  IF IsSome(cb)
        THEN OnDropPanics([t EXCEPT !.fired[g] = Append(@, "fallback")], g)
        ELSE t

\* Drop::drop when cb.complete(T::on_drop()) panics partway.
DropDropCompleteUnwinds(m, g, pushed) ==
    LET cb == m.inner[g]
        t == [Take(m, g) EXCEPT !.dropRuns[g] = @ + 1]
    IN  IF IsSome(cb)
        THEN FutureCompleteUnwinds([t EXCEPT !.fired[g] = Append(@, "fallback"),
                                             !.onDropCalls[g] = @ + 1],
                                   g, Unwrap(cb), OnDrop, pushed)
        ELSE t

\* Writes a Mem back to the variables.
Store(m) ==
    /\ inner' = m.inner
    /\ sink' = m.sink
    /\ invoked' = m.invoked
    /\ fired' = m.fired
    /\ takes' = m.takes
    /\ dropRuns' = m.dropRuns
    /\ onDropCalls' = m.onDropCalls
    /\ emptyBranch' = m.emptyBranch
    /\ panics' = m.panics

\* ---------------------------------------------------------------- state machine
Init ==
    /\ inner = [g \in Guards |-> None]
    /\ life = [g \in Guards |-> "unborn"]
    /\ moved = [c \in Completables |-> FALSE]
    /\ sink = [c \in Completables |-> << >>]
    /\ owner = [g \in Guards |-> None]
    /\ invoked = [c \in Completables |-> 0]
    /\ fired = [g \in Guards |-> << >>]
    /\ takes = [g \in Guards |-> 0]
    /\ dropRuns = [g \in Guards |-> 0]
    /\ onDropCalls = [g \in Guards |-> 0]
    /\ arg = [g \in Guards |-> None]
    /\ emptyBranch = [g \in Guards |-> FALSE]
    /\ panics = [g \in Guards |-> << >>]

\* let promise = wrap(Borrowed { vec: &mut output }): the completable c is
\* moved into a new promise g.
Wrap(g, c) ==
    /\ life[g] = "unborn"
    /\ ~moved[c]
    /\ Store(WrapFn(Mem, g, c))
    /\ life' = [life EXCEPT ![g] = "live"]
    /\ moved' = [moved EXCEPT ![c] = TRUE]
    /\ owner' = [owner EXCEPT ![g] = Some(c)]
    /\ UNCHANGED arg

\* promise.complete(result): the body runs, then self goes out of scope at the
\* end of the call and Drop::drop runs on it.
Complete(g, result) ==
    /\ life[g] = "live"
    /\ Store(DropDrop(PromiseComplete(Mem, g, result), g))
    /\ life' = [life EXCEPT ![g] = "dropped"]
    /\ arg' = [arg EXCEPT ![g] = Some(result)]
    /\ UNCHANGED << moved, owner >>

\* The holder's scope ends with the promise never completed: Drop::drop runs.
Abandon(g) ==
    /\ life[g] = "live"
    /\ Store(DropDrop(Mem, g))
    /\ life' = [life EXCEPT ![g] = "dropped"]
    /\ UNCHANGED << moved, owner, arg >>

Next ==
    \/ \E g \in Guards, c \in Completables : Wrap(g, c)
    \/ \E g \in Guards, result \in Values : Complete(g, result)
    \/ \E g \in Guards : Abandon(g)

Spec == Init /\ [][Next]_vars

\* Every owned value's scope ends: a live promise is eventually completed or
\* dropped.
FairSpec == Spec /\ \A g \in Guards : WF_vars(Abandon(g))

\* promise.complete(result) with an implementer whose complete panics: the
\* body unwinds, and the unwinding drops self, so Drop::drop runs on it.
CompleteUnwinds(g, result, pushed) ==
    /\ life[g] = "live"
    /\ Store(DropDrop(PromiseCompleteUnwinds(Mem, g, result, pushed), g))
    /\ life' = [life EXCEPT ![g] = "dropped"]
    /\ arg' = [arg EXCEPT ![g] = Some(result)]
    /\ UNCHANGED << moved, owner >>

\* The promise is dropped un-completed and T::on_drop() panics in Drop::drop.
AbandonOnDropPanics(g) ==
    /\ life[g] = "live"
    /\ Store(DropDropOnDropPanics(Mem, g))
    /\ life' = [life EXCEPT ![g] = "dropped"]
    /\ UNCHANGED << moved, owner, arg >>

\* The promise is dropped un-completed and cb.complete(..) panics in Drop::drop.
AbandonCompleteUnwinds(g, pushed) ==
    /\ life[g] = "live"
    /\ Store(DropDropCompleteUnwinds(Mem, g, pushed))
    /\ life' = [life EXCEPT ![g] = "dropped"]
    /\ UNCHANGED << moved, owner, arg >>

\* The program with implementers of FutureType that may panic.
NextUnwind ==
    \/ Next
    \/ \E g \in Guards, result \in Values, pushed \in BOOLEAN :
            CompleteUnwinds(g, result, pushed)
    \/ \E g \in Guards : AbandonOnDropPanics(g)
    \/ \E g \in Guards, pushed \in BOOLEAN : AbandonCompleteUnwinds(g, pushed)

UnwindSpec == Init /\ [][NextUnwind]_vars

\* ---------------------------------------------------------------- properties
\* The completable a wrapped promise was constructed with.
Cb(g) == Unwrap(owner[g])

\* C1: over a promise's lifetime FutureType::complete is invoked on its
\* completable never twice, and exactly once by the time the promise has been
\* destroyed; exactly one of the explicit and the fallback branch fires.
ExactlyOnce ==
    /\ \A c \in Completables : invoked[c] <= 1 /\ Len(sink[c]) <= 1
    /\ \A g \in Guards :
        /\ Len(fired[g]) <= 1
        /\ life[g] = "dropped" =>
            /\ invoked[Cb(g)] = 1
            /\ Len(sink[Cb(g)]) = 1
            /\ fired[g] \in {<< "explicit" >>, << "fallback" >>}

\* One promise destroyed after an explicit completion and one destroyed
\* without it.
ExactlyOnceWitness ==
    \E g, h \in Guards :
        /\ life[g] = "dropped" /\ fired[g] = << "explicit" >>
        /\ life[h] = "dropped" /\ fired[h] = << "fallback" >>

\* C2: a promise dropped without Promise::complete ever called delivers the
\* single value T::on_drop(), which is Err("dropped") for the test's Borrowed.
AbandonYieldsFallback ==
    \A g \in Guards :
        (life[g] = "dropped" /\ arg[g] = None) =>
            /\ sink[Cb(g)] = << OnDrop >>
            /\ sink[Cb(g)] = << Err("dropped") >>

AbandonYieldsFallbackWitness ==
    \E g \in Guards :
        life[g] = "dropped" /\ arg[g] = None /\ dropRuns[g] = 1

\* C3: a promise completed with Promise::complete(result) delivers exactly
\* result, whether Ok or Err, through the explicit branch and never through
\* the fallback branch.
ExplicitYieldsGiven ==
    \A g \in Guards :
        IsSome(arg[g]) =>
            /\ sink[Cb(g)] = << Unwrap(arg[g]) >>
            /\ fired[g] = << "explicit" >>

ExplicitYieldsGivenWitness ==
    \E g, h \in Guards :
        /\ arg[g] = Some(Ok(42)) /\ sink[Cb(g)] = << Ok(42) >>
        /\ arg[h] = Some(Err("fail")) /\ sink[Cb(h)] = << Err("fail") >>

\* C4: after Promise::complete(X) the Drop hook that runs at the end of the
\* call takes from the already-empty slot and does nothing: on_drop is not
\* evaluated and the sink holds the one entry X, never a second one.
NoDoubleDelivery ==
    \A g \in Guards :
        IsSome(arg[g]) =>
            /\ dropRuns[g] = 1
            /\ takes[g] = 2
            /\ onDropCalls[g] = 0
            /\ Len(sink[Cb(g)]) = 1
            /\ invoked[Cb(g)] = 1

NoDoubleDeliveryWitness ==
    \E g \in Guards :
        /\ IsSome(arg[g]) /\ Unwrap(arg[g]) # OnDrop
        /\ dropRuns[g] = 1 /\ life[g] = "dropped"

\* C5: every promise created by wrap eventually has its completable completed
\* with a value, whether the holder completes it or abandons it.
GuaranteedResolution ==
    \A g \in Guards :
        (life[g] = "live") ~>
            (life[g] = "dropped" /\ invoked[Cb(g)] = 1 /\ Len(sink[Cb(g)]) = 1)

GuaranteedResolutionWitness ==
    \A g \in Guards :
        life[g] = "dropped" /\ invoked[Cb(g)] = 1 /\ Len(sink[Cb(g)]) = 1

\* C6: wrap returns a promise whose slot holds the given completable, and the
\* construction invokes neither FutureType::complete nor on_drop: nothing is
\* delivered by it.
ConstructionPending ==
    [][\A g \in Guards :
        (life[g] = "unborn" /\ life'[g] = "live") =>
            /\ IsSome(inner'[g])
            /\ inner'[g] = owner'[g]
            /\ sink' = sink
            /\ invoked' = invoked
            /\ onDropCalls' = onDropCalls
            /\ fired' = fired
            /\ takes' = takes]_vars

ConstructionPendingWitness ==
    \E g \in Guards :
        /\ life[g] = "live" /\ IsSome(inner[g])
        /\ sink[Cb(g)] = << >> /\ invoked[Cb(g)] = 0

\* C7: once a promise's slot has been emptied it never holds the completable
\* again and nothing more is delivered; the teardown that follows an explicit
\* completion leaves everything as the explicit completion left it.
CompletedTerminal ==
    [][\A g \in Guards :
        /\ (life[g] # "unborn" /\ inner[g] = None) =>
            /\ inner'[g] = None
            /\ sink'[Cb(g)] = sink[Cb(g)]
            /\ invoked'[Cb(g)] = invoked[Cb(g)]
            /\ fired'[g] = fired[g]
        /\ (life[g] = "live" /\ IsSome(arg'[g])) =>
            LET mid == PromiseComplete(Mem, g, Unwrap(arg'[g]))
            IN  /\ mid.inner[g] = None
                /\ inner' = mid.inner
                /\ sink' = mid.sink
                /\ invoked' = mid.invoked
                /\ fired' = mid.fired
                /\ onDropCalls' = mid.onDropCalls]_vars

CompletedTerminalWitness ==
    \E g \in Guards :
        /\ IsSome(arg[g]) /\ inner[g] = None
        /\ takes[g] = 2 /\ invoked[Cb(g)] = 1

\* C8: between operations, a wrapped promise's slot holds the completable
\* exactly when no value has been delivered to it, and is empty exactly when
\* one value has been delivered.
SlotDeliveryCorrespondence ==
    \A g \in Guards :
        life[g] # "unborn" =>
            /\ IsSome(inner[g]) <=> Len(sink[Cb(g)]) = 0
            /\ inner[g] = None <=> Len(sink[Cb(g)]) = 1

SlotDeliveryCorrespondenceWitness ==
    \E g, h \in Guards :
        /\ life[g] = "live" /\ IsSome(inner[g]) /\ Len(sink[Cb(g)]) = 0
        /\ life[h] = "dropped" /\ inner[h] = None /\ Len(sink[Cb(h)]) = 1

\* C9: the value is delivered within the operation that triggers it: the step
\* that ends a promise's life appends the result (explicit) or the fallback
\* (abandoned) to the sink.
SynchronousDelivery ==
    [][\A g \in Guards :
        (life[g] = "live" /\ life'[g] = "dropped") =>
            sink'[Cb(g)] = Append(sink[Cb(g)],
                                  IF IsSome(arg'[g]) THEN Unwrap(arg'[g]) ELSE OnDrop)]_vars

SynchronousDeliveryWitness ==
    \E g, h \in Guards :
        /\ arg[g] = Some(Ok(42)) /\ sink[Cb(g)] = << Ok(42) >>
        /\ life[h] = "dropped" /\ arg[h] = None /\ sink[Cb(h)] = << OnDrop >>

\* C10: Promise::complete never finds the slot empty: every promise the
\* holder owns is pending.
EmptyBranchUnreachable ==
    \A g \in Guards :
        /\ ~emptyBranch[g]
        /\ life[g] = "live" => IsSome(inner[g])

EmptyBranchUnreachableWitness ==
    \E g \in Guards :
        IsSome(arg[g]) /\ ~emptyBranch[g] /\ fired[g] = << "explicit" >>

\* C11: every step acts on one promise g: it changes only g's slot and
\* counters and delivers only to g's own completable; every other promise and
\* every other completable's sink and invocation count stay as they were, and
\* no two promises hold the same completable.
IsolationBetweenGuards ==
    [][/\ \E g \in Guards :
            /\ IsSome(owner'[g])
            /\ \A h \in Guards \ {g} :
                /\ inner'[h] = inner[h]
                /\ life'[h] = life[h]
                /\ owner'[h] = owner[h]
                /\ fired'[h] = fired[h]
                /\ takes'[h] = takes[h]
                /\ dropRuns'[h] = dropRuns[h]
                /\ onDropCalls'[h] = onDropCalls[h]
                /\ arg'[h] = arg[h]
            /\ \A c \in Completables \ {Unwrap(owner'[g])} :
                sink'[c] = sink[c] /\ invoked'[c] = invoked[c]
       /\ \A g, h \in Guards :
            (g # h /\ IsSome(owner'[g]) /\ IsSome(owner'[h])) => owner'[g] # owner'[h]]_vars

\* One promise completed and one dropped while a third is still pending and
\* its sink untouched.
IsolationBetweenGuardsWitness ==
    \E g, h, k \in Guards :
        /\ life[g] = "dropped" /\ IsSome(arg[g])
        /\ life[h] = "dropped" /\ arg[h] = None
        /\ life[k] = "live" /\ IsSome(inner[k]) /\ sink[Cb(k)] = << >>

\* C12: when T::on_drop() panics during the teardown of a pending promise,
\* the slot has already been emptied, on_drop is not evaluated again, the
\* completable is never invoked and its sink stays empty, and the only failure
\* recorded is the implementer's own.
FallbackFailureNoDelivery ==
    \A g \in Guards :
        (\E i \in 1..Len(panics[g]) : panics[g][i] = "on_drop") =>
            /\ panics[g] = << "on_drop" >>
            /\ inner[g] = None
            /\ life[g] = "dropped"
            /\ takes[g] = 1
            /\ dropRuns[g] = 1
            /\ onDropCalls[g] = 1
            /\ invoked[Cb(g)] = 0
            /\ sink[Cb(g)] = << >>

FallbackFailureNoDeliveryWitness ==
    \E g \in Guards :
        /\ panics[g] = << "on_drop" >> /\ arg[g] = None
        /\ inner[g] = None /\ sink[Cb(g)] = << >>

\* C13: T::on_drop() is evaluated at most once per promise, and only by the
\* teardown of a promise that is still pending and was never explicitly
\* completed: never by wrap or by Promise::complete and the teardown after it.
FallbackOnlyOnAbandonment ==
    [][\A g \in Guards :
        onDropCalls'[g] # onDropCalls[g] =>
            /\ onDropCalls[g] = 0
            /\ onDropCalls'[g] = 1
            /\ life[g] = "live"
            /\ IsSome(inner[g])
            /\ life'[g] = "dropped"
            /\ dropRuns'[g] = 1
            /\ arg'[g] = None]_vars

FallbackOnlyOnAbandonmentWitness ==
    \E g, h \in Guards :
        /\ life[g] = "dropped" /\ arg[g] = None /\ onDropCalls[g] = 1
        /\ life[h] = "dropped" /\ IsSome(arg[h]) /\ dropRuns[h] = 1
        /\ onDropCalls[h] = 0

\* C14: the slot is emptied before the completable's complete is invoked: when
\* that call panics, the slot is empty and the completable was invoked once;
\* in an explicit Promise::complete the teardown run by the unwinding takes
\* from the empty slot, evaluates no fallback and delivers nothing more.
TakeBeforeInvoke ==
    \A g \in Guards :
        (\E i \in 1..Len(panics[g]) : panics[g][i] = "complete") =>
            /\ panics[g] = << "complete" >>
            /\ inner[g] = None
            /\ invoked[Cb(g)] = 1
            /\ Len(fired[g]) = 1
            /\ dropRuns[g] = 1
            /\ IsSome(arg[g]) =>
                /\ fired[g] = << "explicit" >>
                /\ takes[g] = 2
                /\ onDropCalls[g] = 0
                /\ sink[Cb(g)] \in {<< >>, << Unwrap(arg[g]) >>}

TakeBeforeInvokeWitness ==
    \E g, h \in Guards :
        /\ panics[g] = << "complete" >> /\ arg[g] = Some(Ok(42))
        /\ sink[Cb(g)] = << >> /\ dropRuns[g] = 1
        /\ panics[h] = << "complete" >> /\ arg[h] = Some(Err("fail"))
        /\ sink[Cb(h)] = << Err("fail") >>

====
